---- MODULE Spec2Model ----
(***************************************************************************)
(* Model of bank_embedded_task/main.c: two POSIX threads transfer funds    *)
(* between two accounts under a pair of mutexes, while the main thread     *)
(* acts as deadline watchdog and finally joins the threads and prints the  *)
(* results.                                                                *)
(*                                                                         *)
(* Every C statement that touches shared state is one step.  The two       *)
(* thread routines differ only in the direction of the transfer, so they   *)
(* are one set of actions indexed by the thread t in {1, 2}: thread t      *)
(* calls transfer_funds(&account<t>, &account<3-t>).                       *)
(*                                                                         *)
(* Balances and amounts are doubles in the source; the model ranges over   *)
(* whole amounts, which doubles represent and add exactly.                 *)
(*                                                                         *)
(* termination_reason is a char buffer written by snprintf and strcpy      *)
(* without any lock.  A byte copy is not atomic, so the buffer is modelled *)
(* as two byte ranges (head = bytes 0..14, tail = the rest) that a writer  *)
(* fills one after the other.                                              *)
(***************************************************************************)
EXTENDS Integers, Sequences, FiniteSets, TLC

\* ---- bounds of the model ------------------------------------------------
MaxBalance == 2      \* initial balances are drawn from 0..MaxBalance
MaxAmount == 2       \* transfer amounts are drawn from 0..MaxAmount
MaxTransfers == 2    \* the deadline sleep ends before a thread exceeds this

Threads == {1, 2}
Accounts == {1, 2}
Balances == 0..MaxBalance
Amounts == 0..MaxAmount

VARIABLES
    balance,               \* account<i>.balance
    transfer_amount,       \* account<i>.transfer_amount
    successful_transfers,  \* account<i>.successful_transfers
    mutex,                 \* account<i>.mutex: 0 = free, t = held by thread t
    is_terminated,         \* volatile int is_terminated
    termination_reason,    \* char termination_reason[100], <<head, tail>>
    pc,                    \* position of each transfer thread
    branch,                \* which return of transfer_funds the call takes;
                           \* kept once the thread has stopped on it
    ret,                   \* value returned by the last transfer_funds call
    entry,                 \* accounts as they were when the call got both locks
    mainpc,                \* position of the main thread
    initial                \* balances as read by get_user_input

vars == <<balance, transfer_amount, successful_transfers, mutex, is_terminated,
          termination_reason, pc, branch, ret, entry, mainpc, initial>>

\* ---- the termination reason buffer --------------------------------------
EmptyReason == <<"", "">>

\* snprintf(termination_reason, 100, "Insufficient funds in Account %d", id)
InsufficientReason(id) == <<"Insufficient fu", "nds in Account " \o ToString(id)>>

\* strcpy(termination_reason, "Global deadline expired")
DeadlineReason == <<"Global deadline", " expired">>

\* ---- transfer directions and the lock order -----------------------------
Source(t) == t
Dest(t) == 3 - t

\* lock_pair without the account-1-first rule: locks in argument order
LockOrderAsGiven(m1, m2) == <<m1, m2>>

\* lock_pair(m1, m2): the order in which the two mutexes are locked
LockOrder(m1, m2) == IF m1 = 1 THEN <<m1, m2>> ELSE <<m2, m1>>

NoEntry == [balance |-> <<0, 0>>, successful_transfers |-> <<0, 0>>]

\* ---- initial state: after get_user_input, before pthread_create ---------
Init ==
    /\ balance \in [Accounts -> Balances]
    /\ transfer_amount \in [Accounts -> Amounts]
    /\ successful_transfers = [a \in Accounts |-> 0]
    /\ mutex = [a \in Accounts |-> 0]
    /\ is_terminated = 0
    /\ termination_reason = EmptyReason
    /\ pc = [t \in Threads |-> "idle"]
    /\ branch = [t \in Threads |-> "none"]
    /\ ret = [t \in Threads |-> 0]
    /\ entry = [t \in Threads |-> NoEntry]
    /\ mainpc = "create1"
    /\ initial = balance

\* ---- transfer threads ---------------------------------------------------

\* a loop that never reads the flag: for (;;) { ... }
WhileCheckNoPoll(t) ==
    /\ pc[t] = "loop"
    /\ \/ is_terminated = 1
       \/ successful_transfers[Source(t)] < MaxTransfers
    /\ pc' = [pc EXCEPT ![t] = "lock_first"]
    /\ UNCHANGED <<balance, transfer_amount, successful_transfers, mutex,
                   is_terminated, termination_reason, branch, ret, entry,
                   mainpc, initial>>

\* while (!is_terminated)
WhileCheck(t) ==
    /\ pc[t] = "loop"
    /\ \/ is_terminated = 1
       \/ successful_transfers[Source(t)] < MaxTransfers
    /\ pc' = [pc EXCEPT ![t] = IF is_terminated = 1 THEN "done" ELSE "lock_first"]
    /\ UNCHANGED <<balance, transfer_amount, successful_transfers, mutex,
                   is_terminated, termination_reason, branch, ret, entry,
                   mainpc, initial>>

\* lock_pair: first pthread_mutex_lock
LockFirst(t) ==
    /\ pc[t] = "lock_first"
    /\ LET m == LockOrder(Source(t), Dest(t))[1] IN
        /\ mutex[m] = 0
        /\ mutex' = [mutex EXCEPT ![m] = t]
    /\ pc' = [pc EXCEPT ![t] = "lock_second"]
    /\ UNCHANGED <<balance, transfer_amount, successful_transfers,
                   is_terminated, termination_reason, branch, ret, entry,
                   mainpc, initial>>

\* lock_pair: second pthread_mutex_lock; the call now holds both mutexes
LockSecond(t) ==
    /\ pc[t] = "lock_second"
    /\ LET m == LockOrder(Source(t), Dest(t))[2] IN
        /\ mutex[m] = 0
        /\ mutex' = [mutex EXCEPT ![m] = t]
    /\ pc' = [pc EXCEPT ![t] = "check_terminated"]
    /\ entry' = [entry EXCEPT ![t] =
                    [balance |-> <<balance[1], balance[2]>>,
                     successful_transfers |->
                        <<successful_transfers[1], successful_transfers[2]>>]]
    /\ UNCHANGED <<balance, transfer_amount, successful_transfers,
                   is_terminated, termination_reason, branch, ret,
                   mainpc, initial>>

\* the abort path releases the locks but forgets to return
CheckTerminatedNoReturn(t) ==
    /\ pc[t] = "check_terminated"
    /\ pc' = [pc EXCEPT ![t] = "check_funds"]
    /\ mutex' = IF is_terminated = 1 THEN [a \in Accounts |-> 0] ELSE mutex
    /\ UNCHANGED <<balance, transfer_amount, successful_transfers, branch,
                   is_terminated, termination_reason, ret, entry,
                   mainpc, initial>>

\* the abort path returns -1 without calling unlock_pair
CheckTerminatedNoUnlock(t) ==
    /\ pc[t] = "check_terminated"
    /\ IF is_terminated = 1
         THEN /\ pc' = [pc EXCEPT ![t] = "returned"]
              /\ branch' = [branch EXCEPT ![t] = "aborted"]
              /\ ret' = [ret EXCEPT ![t] = -1]
         ELSE /\ pc' = [pc EXCEPT ![t] = "check_funds"]
              /\ UNCHANGED <<branch, ret>>
    /\ UNCHANGED <<balance, transfer_amount, successful_transfers, mutex,
                   is_terminated, termination_reason, entry,
                   mainpc, initial>>

\* transfer_funds without its termination check
CheckTerminatedSkipped(t) ==
    /\ pc[t] = "check_terminated"
    /\ pc' = [pc EXCEPT ![t] = "check_funds"]
    /\ UNCHANGED <<balance, transfer_amount, successful_transfers, mutex,
                   is_terminated, termination_reason, branch, ret, entry,
                   mainpc, initial>>

\* if (is_terminated) { unlock_pair; return -1; }
CheckTerminated(t) ==
    /\ pc[t] = "check_terminated"
    /\ IF is_terminated = 1
         THEN /\ pc' = [pc EXCEPT ![t] = "unlock_first"]
              /\ branch' = [branch EXCEPT ![t] = "aborted"]
         ELSE /\ pc' = [pc EXCEPT ![t] = "check_funds"]
              /\ UNCHANGED branch
    /\ UNCHANGED <<balance, transfer_amount, successful_transfers, mutex,
                   is_terminated, termination_reason, ret, entry,
                   mainpc, initial>>

\* the debit is done before the funds check and not undone on failure
CheckFundsDebitFirst(t) ==
    /\ pc[t] = "check_funds"
    /\ IF balance[Source(t)] < transfer_amount[Source(t)]
         THEN /\ pc' = [pc EXCEPT ![t] = "reason_head"]
              /\ branch' = [branch EXCEPT ![t] = "insufficient"]
              /\ balance' = [balance EXCEPT
                                ![Source(t)] = @ - transfer_amount[Source(t)]]
         ELSE /\ pc' = [pc EXCEPT ![t] = "debit"]
              /\ branch' = [branch EXCEPT ![t] = "success"]
              /\ UNCHANGED balance
    /\ UNCHANGED <<transfer_amount, successful_transfers, mutex,
                   is_terminated, termination_reason, ret, entry,
                   mainpc, initial>>

\* the funds check reads the destination's balance
CheckFundsOfDest(t) ==
    /\ pc[t] = "check_funds"
    /\ IF balance[Dest(t)] < transfer_amount[Source(t)]
         THEN /\ pc' = [pc EXCEPT ![t] = "reason_head"]
              /\ branch' = [branch EXCEPT ![t] = "insufficient"]
         ELSE /\ pc' = [pc EXCEPT ![t] = "debit"]
              /\ branch' = [branch EXCEPT ![t] = "success"]
    /\ UNCHANGED <<balance, transfer_amount, successful_transfers, mutex,
                   is_terminated, termination_reason, ret, entry,
                   mainpc, initial>>

\* the funds check uses <= where < was meant
CheckFundsAtMost(t) ==
    /\ pc[t] = "check_funds"
    /\ IF balance[Source(t)] <= transfer_amount[Source(t)]
         THEN /\ pc' = [pc EXCEPT ![t] = "reason_head"]
              /\ branch' = [branch EXCEPT ![t] = "insufficient"]
         ELSE /\ pc' = [pc EXCEPT ![t] = "debit"]
              /\ branch' = [branch EXCEPT ![t] = "success"]
    /\ UNCHANGED <<balance, transfer_amount, successful_transfers, mutex,
                   is_terminated, termination_reason, ret, entry,
                   mainpc, initial>>

\* if (source->balance < source->transfer_amount)
CheckFunds(t) ==
    /\ pc[t] = "check_funds"
    /\ IF balance[Source(t)] < transfer_amount[Source(t)]
         THEN /\ pc' = [pc EXCEPT ![t] = "reason_head"]
              /\ branch' = [branch EXCEPT ![t] = "insufficient"]
         ELSE /\ pc' = [pc EXCEPT ![t] = "debit"]
              /\ branch' = [branch EXCEPT ![t] = "success"]
    /\ UNCHANGED <<balance, transfer_amount, successful_transfers, mutex,
                   is_terminated, termination_reason, ret, entry,
                   mainpc, initial>>

\* the reason is not written before the flag is set
WriteReasonHeadSkipped(t) ==
    /\ pc[t] = "reason_head"
    /\ pc' = [pc EXCEPT ![t] = "set_terminated"]
    /\ UNCHANGED <<balance, transfer_amount, successful_transfers, mutex,
                   is_terminated, termination_reason, branch, ret, entry,
                   mainpc, initial>>

\* snprintf(termination_reason, ...): bytes 0..14
WriteReasonHead(t) ==
    /\ pc[t] = "reason_head"
    /\ termination_reason' =
          <<InsufficientReason(Source(t))[1], termination_reason[2]>>
    /\ pc' = [pc EXCEPT ![t] = "reason_tail"]
    /\ UNCHANGED <<balance, transfer_amount, successful_transfers, mutex,
                   is_terminated, branch, ret, entry, mainpc, initial>>

\* snprintf(termination_reason, ...): the remaining bytes and the terminator
WriteReasonTail(t) ==
    /\ pc[t] = "reason_tail"
    /\ termination_reason' =
          <<termination_reason[1], InsufficientReason(Source(t))[2]>>
    /\ pc' = [pc EXCEPT ![t] = "set_terminated"]
    /\ UNCHANGED <<balance, transfer_amount, successful_transfers, mutex,
                   is_terminated, branch, ret, entry, mainpc, initial>>

\* the insufficient-funds path returns -1 without calling unlock_pair
SetTerminatedNoUnlock(t) ==
    /\ pc[t] = "set_terminated"
    /\ is_terminated' = 1
    /\ ret' = [ret EXCEPT ![t] = -1]
    /\ pc' = [pc EXCEPT ![t] = "returned"]
    /\ UNCHANGED <<balance, transfer_amount, successful_transfers, mutex,
                   termination_reason, branch, entry, mainpc, initial>>

\* is_terminated = 1;
SetTerminated(t) ==
    /\ pc[t] = "set_terminated"
    /\ is_terminated' = 1
    /\ pc' = [pc EXCEPT ![t] = "unlock_first"]
    /\ UNCHANGED <<balance, transfer_amount, successful_transfers, mutex,
                   termination_reason, branch, ret, entry, mainpc, initial>>

\* the debit uses the destination's transfer amount
DebitDestAmount(t) ==
    /\ pc[t] = "debit"
    /\ balance' = [balance EXCEPT ![Source(t)] = @ - transfer_amount[Dest(t)]]
    /\ pc' = [pc EXCEPT ![t] = "credit"]
    /\ UNCHANGED <<transfer_amount, successful_transfers, mutex, is_terminated,
                   termination_reason, branch, ret, entry, mainpc, initial>>

\* source->balance -= source->transfer_amount;
Debit(t) ==
    /\ pc[t] = "debit"
    /\ balance' = [balance EXCEPT ![Source(t)] = @ - transfer_amount[Source(t)]]
    /\ pc' = [pc EXCEPT ![t] = "credit"]
    /\ UNCHANGED <<transfer_amount, successful_transfers, mutex, is_terminated,
                   termination_reason, branch, ret, entry, mainpc, initial>>

\* the credit uses the destination's own transfer amount
CreditDestAmount(t) ==
    /\ pc[t] = "credit"
    /\ balance' = [balance EXCEPT ![Dest(t)] = @ + transfer_amount[Dest(t)]]
    /\ pc' = [pc EXCEPT ![t] = "count"]
    /\ UNCHANGED <<transfer_amount, successful_transfers, mutex, is_terminated,
                   termination_reason, branch, ret, entry, mainpc, initial>>

\* dest->balance += source->transfer_amount;
Credit(t) ==
    /\ pc[t] = "credit"
    /\ balance' = [balance EXCEPT ![Dest(t)] = @ + transfer_amount[Source(t)]]
    /\ pc' = [pc EXCEPT ![t] = "count"]
    /\ UNCHANGED <<transfer_amount, successful_transfers, mutex, is_terminated,
                   termination_reason, branch, ret, entry, mainpc, initial>>

\* the counter is incremented before the funds are moved and again after
CountTransferTwice(t) ==
    /\ pc[t] = "count"
    /\ successful_transfers' = [successful_transfers EXCEPT ![Source(t)] = @ + 2]
    /\ pc' = [pc EXCEPT ![t] = "unlock_first"]
    /\ UNCHANGED <<balance, transfer_amount, mutex, is_terminated,
                   termination_reason, branch, ret, entry, mainpc, initial>>

\* the counter of the destination is incremented instead
CountTransferDest(t) ==
    /\ pc[t] = "count"
    /\ successful_transfers' = [successful_transfers EXCEPT ![Dest(t)] = @ + 1]
    /\ pc' = [pc EXCEPT ![t] = "unlock_first"]
    /\ UNCHANGED <<balance, transfer_amount, mutex, is_terminated,
                   termination_reason, branch, ret, entry, mainpc, initial>>

\* source->successful_transfers++; printf("SUCCESS: ...")
CountTransfer(t) ==
    /\ pc[t] = "count"
    /\ successful_transfers' = [successful_transfers EXCEPT ![Source(t)] = @ + 1]
    /\ pc' = [pc EXCEPT ![t] = "unlock_first"]
    /\ UNCHANGED <<balance, transfer_amount, mutex, is_terminated,
                   termination_reason, branch, ret, entry, mainpc, initial>>

\* unlock_pair: pthread_mutex_unlock(&source->mutex)
UnlockFirst(t) ==
    /\ pc[t] = "unlock_first"
    /\ mutex' = [mutex EXCEPT ![Source(t)] = 0]
    /\ pc' = [pc EXCEPT ![t] = "unlock_second"]
    /\ UNCHANGED <<balance, transfer_amount, successful_transfers,
                   is_terminated, termination_reason, branch, ret, entry,
                   mainpc, initial>>

\* unlock_pair: pthread_mutex_unlock(&dest->mutex); return 0 or -1
UnlockSecond(t) ==
    /\ pc[t] = "unlock_second"
    /\ mutex' = [mutex EXCEPT ![Dest(t)] = 0]
    /\ ret' = [ret EXCEPT ![t] = IF branch[t] = "success" THEN 0 ELSE -1]
    /\ pc' = [pc EXCEPT ![t] = "returned"]
    /\ UNCHANGED <<balance, transfer_amount, successful_transfers,
                   is_terminated, termination_reason, branch, entry,
                   mainpc, initial>>

\* the return value of transfer_funds is ignored
CheckResultIgnored(t) ==
    /\ pc[t] = "returned"
    /\ pc' = [pc EXCEPT ![t] = "sleep"]
    /\ branch' = [branch EXCEPT ![t] = "none"]
    /\ entry' = [entry EXCEPT ![t] = NoEntry]
    /\ UNCHANGED <<balance, transfer_amount, successful_transfers, mutex,
                   is_terminated, termination_reason, ret, mainpc, initial>>

\* if (transfer_funds(...) != 0) break;
CheckResult(t) ==
    /\ pc[t] = "returned"
    /\ pc' = [pc EXCEPT ![t] = IF ret[t] # 0 THEN "done" ELSE "sleep"]
    /\ branch' = [branch EXCEPT ![t] = IF ret[t] # 0 THEN @ ELSE "none"]
    /\ entry' = [entry EXCEPT ![t] = NoEntry]
    /\ UNCHANGED <<balance, transfer_amount, successful_transfers, mutex,
                   is_terminated, termination_reason, ret, mainpc, initial>>

\* nanosleep(&ts, NULL);
Nanosleep(t) ==
    /\ pc[t] = "sleep"
    /\ pc' = [pc EXCEPT ![t] = "loop"]
    /\ UNCHANGED <<balance, transfer_amount, successful_transfers, mutex,
                   is_terminated, termination_reason, branch, ret, entry,
                   mainpc, initial>>

thread(t) ==
    \/ WhileCheck(t)
    \/ LockFirst(t)
    \/ LockSecond(t)
    \/ CheckTerminated(t)
    \/ CheckFunds(t)
    \/ WriteReasonHead(t)
    \/ WriteReasonTail(t)
    \/ SetTerminated(t)
    \/ Debit(t)
    \/ Credit(t)
    \/ CountTransfer(t)
    \/ UnlockFirst(t)
    \/ UnlockSecond(t)
    \/ CheckResult(t)
    \/ Nanosleep(t)

\* ---- main thread --------------------------------------------------------

\* pthread_create(&t1, NULL, thread_transfer_1_to_2, NULL);
CreateThread1 ==
    /\ mainpc = "create1"
    /\ pc' = [pc EXCEPT ![1] = "loop"]
    /\ mainpc' = "create2"
    /\ UNCHANGED <<balance, transfer_amount, successful_transfers, mutex,
                   is_terminated, termination_reason, branch, ret, entry,
                   initial>>

\* pthread_create(&t2, NULL, thread_transfer_2_to_1, NULL);
CreateThread2 ==
    /\ mainpc = "create2"
    /\ pc' = [pc EXCEPT ![2] = "loop"]
    /\ mainpc' = "deadline_sleep"
    /\ UNCHANGED <<balance, transfer_amount, successful_transfers, mutex,
                   is_terminated, termination_reason, branch, ret, entry,
                   initial>>

\* sleep(deadline_sec);
DeadlineSleep ==
    /\ mainpc = "deadline_sleep"
    /\ mainpc' = "deadline_check"
    /\ UNCHANGED <<balance, transfer_amount, successful_transfers, mutex,
                   is_terminated, termination_reason, pc, branch, ret, entry,
                   initial>>

\* if (is_terminated = 0): an assignment where the test was meant
DeadlineCheckAssign ==
    /\ mainpc = "deadline_check"
    /\ is_terminated' = 0
    /\ mainpc' = "join1"
    /\ UNCHANGED <<balance, transfer_amount, successful_transfers, mutex,
                   termination_reason, pc, branch, ret, entry, initial>>

\* if (!is_terminated)
DeadlineCheck ==
    /\ mainpc = "deadline_check"
    /\ mainpc' = IF is_terminated = 0 THEN "deadline_flag" ELSE "join1"
    /\ UNCHANGED <<balance, transfer_amount, successful_transfers, mutex,
                   is_terminated, termination_reason, pc, branch, ret, entry,
                   initial>>

\* is_terminated = 1;
DeadlineSetFlag ==
    /\ mainpc = "deadline_flag"
    /\ is_terminated' = 1
    /\ mainpc' = "deadline_head"
    /\ UNCHANGED <<balance, transfer_amount, successful_transfers, mutex,
                   termination_reason, pc, branch, ret, entry, initial>>

\* strcpy(termination_reason, "Global deadline expired"): bytes 0..14
DeadlineCopyHead ==
    /\ mainpc = "deadline_head"
    /\ termination_reason' = <<DeadlineReason[1], termination_reason[2]>>
    /\ mainpc' = "deadline_tail"
    /\ UNCHANGED <<balance, transfer_amount, successful_transfers, mutex,
                   is_terminated, pc, branch, ret, entry, initial>>

\* strcpy(termination_reason, ...): the remaining bytes and the terminator
DeadlineCopyTail ==
    /\ mainpc = "deadline_tail"
    /\ termination_reason' = <<termination_reason[1], DeadlineReason[2]>>
    /\ mainpc' = "join1"
    /\ UNCHANGED <<balance, transfer_amount, successful_transfers, mutex,
                   is_terminated, pc, branch, ret, entry, initial>>

\* pthread_join(t1, NULL);
Join1 ==
    /\ mainpc = "join1"
    /\ pc[1] = "done"
    /\ mainpc' = "join2"
    /\ UNCHANGED <<balance, transfer_amount, successful_transfers, mutex,
                   is_terminated, termination_reason, pc, branch, ret, entry,
                   initial>>

\* pthread_join(t2, NULL);
Join2 ==
    /\ mainpc = "join2"
    /\ pc[2] = "done"
    /\ mainpc' = "final"
    /\ UNCHANGED <<balance, transfer_amount, successful_transfers, mutex,
                   is_terminated, termination_reason, pc, branch, ret, entry,
                   initial>>

\* printf of the final results, pthread_mutex_destroy, return 0
FinalOutput ==
    /\ mainpc = "final"
    /\ mainpc' = "exit"
    /\ UNCHANGED <<balance, transfer_amount, successful_transfers, mutex,
                   is_terminated, termination_reason, pc, branch, ret, entry,
                   initial>>

main ==
    \/ CreateThread1
    \/ CreateThread2
    \/ DeadlineSleep
    \/ DeadlineCheck
    \/ DeadlineSetFlag
    \/ DeadlineCopyHead
    \/ DeadlineCopyTail
    \/ Join1
    \/ Join2
    \/ FinalOutput

Next == main \/ thread(1) \/ thread(2)

Spec == Init /\ [][Next]_vars

\* The run with the inputs A = 100, amount 30, B = 50, amount 40.
ScenarioInit ==
    /\ balance = <<100, 50>>
    /\ transfer_amount = <<30, 40>>
    /\ successful_transfers = [a \in Accounts |-> 0]
    /\ mutex = [a \in Accounts |-> 0]
    /\ is_terminated = 0
    /\ termination_reason = EmptyReason
    /\ pc = [t \in Threads |-> "idle"]
    /\ branch = [t \in Threads |-> "none"]
    /\ ret = [t \in Threads |-> 0]
    /\ entry = [t \in Threads |-> NoEntry]
    /\ mainpc = "create1"
    /\ initial = balance

ScenarioSpec == ScenarioInit /\ [][Next]_vars

\* Fair scheduling: every thread that can take a step eventually takes one.
FairSpec == Spec /\ WF_vars(main) /\ WF_vars(thread(1)) /\ WF_vars(thread(2))

TypeOK ==
    /\ is_terminated \in {0, 1}
    /\ mutex \in [Accounts -> {0, 1, 2}]
    /\ ret \in [Threads -> {0, -1}]
    /\ branch \in [Threads -> {"none", "aborted", "insufficient", "success"}]

\* ---- properties ---------------------------------------------------------

Other(t) == 3 - t

\* thread t is between the return of lock_pair and the call of unlock_pair
InRegion(t) ==
    pc[t] \in {"check_terminated", "check_funds", "reason_head", "reason_tail",
               "set_terminated", "debit", "credit", "count", "unlock_first"}

\* thread t is blocked in lock_pair on mutex m, which another thread holds
WaitsFor(t, m) ==
    /\ \/ pc[t] = "lock_first" /\ LockOrder(Source(t), Dest(t))[1] = m
       \/ pc[t] = "lock_second" /\ LockOrder(Source(t), Dest(t))[2] = m
    /\ mutex[m] # 0
    /\ mutex[m] # t

\* thread t takes a step of its own
StepOf(t) == pc[t] # "idle" /\ pc'[t] # pc[t]

ValidReasons == {DeadlineReason, InsufficientReason(1), InsufficientReason(2)}

\* C1: lock_pair always takes account 1's mutex before account 2's, whichever
\* account is the source, so no state has one thread holding mutex 1 and
\* waiting for mutex 2 while the other holds mutex 2 and waits for mutex 1.
C1_FixedLockOrder ==
    /\ \A t \in Threads :
          pc[t] = "lock_second" => mutex[1] = t /\ mutex[2] # t
    /\ \A t \in Threads :
          ~ (/\ mutex[1] = t /\ WaitsFor(t, 2)
             /\ mutex[2] = Other(t) /\ WaitsFor(Other(t), 1))

\* thread 2, whose source is account 2, holds mutex 1 and still needs mutex 2,
\* while thread 1 waits for mutex 1
C1_Witness ==
    /\ pc[2] = "lock_second" /\ mutex[1] = 2
    /\ WaitsFor(1, 1)

\* C2: whenever no thread is between lock_pair and unlock_pair, the two
\* balances add up to the sum of the two initial balances.
C2_Conservation ==
    (\A t \in Threads : ~ InRegion(t))
        => balance[1] + balance[2] = initial[1] + initial[2]

\* both directions have transferred a positive amount and nobody is in the
\* region
C2_Witness ==
    /\ \A t \in Threads : ~ InRegion(t)
    /\ \A a \in Accounts : successful_transfers[a] > 0 /\ transfer_amount[a] > 0
    /\ transfer_amount[1] # transfer_amount[2]

\* C3: at most one thread is between lock_pair and unlock_pair, it holds both
\* mutexes there, and while it is there no other thread is at a statement that
\* reads or writes a balance or a counter.
C3_AtomicCheckThenMove ==
    \A t \in Threads :
        InRegion(t) =>
            /\ mutex[1] = t /\ mutex[2] = t
            /\ ~ InRegion(Other(t))
            /\ mainpc # "final"

\* thread 1 has debited and not yet credited while thread 2 is blocked in
\* lock_pair
C3_Witness ==
    /\ pc[1] = "credit"
    /\ WaitsFor(2, 1)

\* C4: under fair scheduling both threads leave their loops and the main
\* thread passes both joins and the final output.
C4_Terminates ==
    <>(mainpc = "exit" /\ pc[1] = "done" /\ pc[2] = "done")

\* the run has ended after transfers in both directions
C4_Witness ==
    /\ mainpc = "exit"
    /\ pc[1] = "done" /\ pc[2] = "done"
    /\ successful_transfers[1] > 0 /\ successful_transfers[2] > 0

\* C5: the termination reason is written at most once: a reason that has been
\* written is never overwritten, in particular not by the watchdog after an
\* insufficient-funds termination.
C5_ReasonWrittenOnce ==
    [][(termination_reason \in ValidReasons)
          => (termination_reason' = termination_reason)]_vars

\* C6: when main prints the final results the reason is one of the valid
\* strings, and an insufficient-funds reason names an account whose balance is
\* below its transfer amount.
C6_ReasonValidAtShutdown ==
    mainpc = "final" =>
        /\ termination_reason \in ValidReasons
        /\ \A id \in Accounts :
              termination_reason = InsufficientReason(id)
                  => balance[id] < transfer_amount[id]

\* C7: is_terminated starts at 0 and never goes back from 1 to 0.
C7_FlagOneWay ==
    /\ is_terminated = 0
    /\ [][is_terminated = 1 => is_terminated' = 1]_vars

\* the flag is set while a thread is still running
C7_Witness ==
    /\ is_terminated = 1
    /\ \E t \in Threads : pc[t] = "sleep"

\* C8: a successful call has moved exactly transfer_amount from the source to
\* the destination and counted one transfer for the source; the destination's
\* counter is as before, and no step of the call changes a transfer amount,
\* the flag or the reason.
C8_SuccessPost ==
    \A t \in Threads :
        (pc[t] \in {"unlock_first", "unlock_second"} /\ branch[t] = "success") =>
            /\ balance[Source(t)] =
                  entry[t].balance[Source(t)] - transfer_amount[Source(t)]
            /\ balance[Dest(t)] =
                  entry[t].balance[Dest(t)] + transfer_amount[Source(t)]
            /\ successful_transfers[Source(t)] =
                  entry[t].successful_transfers[Source(t)] + 1
            /\ successful_transfers[Dest(t)] =
                  entry[t].successful_transfers[Dest(t)]

C8_SuccessLeavesRest ==
    \A t \in Threads :
        (StepOf(t) /\ (branch[t] = "success" \/ branch'[t] = "success")) =>
            /\ transfer_amount' = transfer_amount
            /\ is_terminated' = is_terminated
            /\ termination_reason' = termination_reason

C8_SuccessfulTransfer == [] C8_SuccessPost /\ [][C8_SuccessLeavesRest]_vars

\* a successful call is about to unlock after the other direction has already
\* counted a transfer
C8_Witness ==
    \E t \in Threads :
        /\ pc[t] = "unlock_first" /\ branch[t] = "success"
        /\ transfer_amount[Source(t)] > 0
        /\ successful_transfers[Dest(t)] > 0

\* C9: a call that passes the termination check succeeds iff the source
\* balance is at least the transfer amount; balance = amount leaves 0; with
\* the balance one below the amount the call fails and the termination state
\* is set with reason "Insufficient funds in Account <source.id>".
C9_BoundaryPost ==
    \A t \in Threads :
        (pc[t] = "unlock_first" /\ branch[t] # "aborted") =>
            /\ branch[t] = "success" <=>
                  entry[t].balance[Source(t)] >= transfer_amount[Source(t)]
            /\ (entry[t].balance[Source(t)] = transfer_amount[Source(t)])
                  => balance[Source(t)] = 0
            /\ (entry[t].balance[Source(t)] = transfer_amount[Source(t)] - 1)
                  => branch[t] = "insufficient"

\* the termination state as the failing call leaves it at its last write
C9_FailureSetsReason ==
    \A t \in Threads :
        (StepOf(t) /\ pc[t] = "set_terminated") =>
            /\ is_terminated' = 1
            /\ termination_reason' = InsufficientReason(Source(t))

C9_FundsBoundary == [] C9_BoundaryPost /\ [][C9_FailureSetsReason]_vars

\* C10: a call ends in exactly one of success, insufficient funds and
\* already-terminated; a non-success call leaves both balances and both
\* counters as they were, and no step of an already-terminated call changes
\* the flag or the reason.
C10_OutcomePost ==
    \A t \in Threads :
        /\ pc[t] \in {"unlock_first", "unlock_second", "returned"} =>
              /\ branch[t] \in {"success", "insufficient", "aborted"}
              /\ branch[t] = "aborted" => is_terminated = 1
              /\ branch[t] = "insufficient" =>
                    entry[t].balance[Source(t)] < transfer_amount[Source(t)]
              /\ branch[t] = "success" =>
                    entry[t].balance[Source(t)] >= transfer_amount[Source(t)]
        /\ pc[t] = "returned" => (ret[t] = 0 <=> branch[t] = "success")
        /\ (pc[t] \in {"unlock_first", "unlock_second"}
                /\ branch[t] # "success") =>
              \A a \in Accounts :
                  /\ balance[a] = entry[t].balance[a]
                  /\ successful_transfers[a] = entry[t].successful_transfers[a]

C10_AbortLeavesTermination ==
    \A t \in Threads :
        (StepOf(t) /\ (branch[t] = "aborted" \/ branch'[t] = "aborted")) =>
            /\ is_terminated' = is_terminated
            /\ termination_reason' = termination_reason

C10_ThreeOutcomes == [] C10_OutcomePost /\ [][C10_AbortLeavesTermination]_vars

\* an insufficient-funds call is about to unlock after a transfer was made,
\* and the other thread is on its way to the already-terminated return
C10_Witness ==
    \E t \in Threads :
        /\ pc[t] = "unlock_second" /\ branch[t] = "insufficient"
        /\ successful_transfers[Dest(t)] > 0
        /\ pc[Other(t)] = "lock_second"

C12_LockDiscipline ==
    /\ \A t \in Threads :
          /\ pc[t] \in {"check_funds", "debit", "count"} => mutex[Source(t)] = t
          /\ pc[t] = "credit" => mutex[Dest(t)] = t
    /\ mainpc = "final" =>
          \A a \in Accounts : mutex[a] # 0 /\ mutex[a] \notin Threads

LargeBalances ==
    \A a \in Accounts : initial[a] >= MaxTransfers * transfer_amount[a]

ActorSteps(t) ==
    /\ (pc'[t] = "sleep" /\ pc[t] # "sleep")
          => (pc[t] = "returned" /\ ret[t] = 0)
    /\ (pc[t] = "returned" /\ pc'[t] # pc[t])
          => pc'[t] = IF ret[t] = 0 THEN "sleep" ELSE "done"
    /\ (pc[t] = "sleep" /\ pc'[t] # pc[t]) => pc'[t] = "loop"
    /\ pc[t] = "done" => pc'[t] = "done"
    /\ (pc'[t] = "lock_first" /\ pc[t] # "lock_first") => pc[t] = "loop"

C16_NoLockOutsideCall ==
    \A t \in Threads :
        pc[t] \in {"idle", "loop", "returned", "sleep", "done"} =>
            \A a \in Accounts : mutex[a] # t

\* one thread has stopped after the insufficient-funds return and the other
\* is waiting after a success, while both mutexes are free
C16_Witness ==
    \E t \in Threads :
        /\ pc[t] = "done" /\ branch[t] = "insufficient"
        /\ pc[Other(t)] = "sleep"
        /\ \A a \in Accounts : mutex[a] = 0

\* thread t has ended the run for insufficient funds: it took that return and
\* has executed is_terminated = 1
Failed(t) ==
    /\ branch[t] = "insufficient"
    /\ pc[t] \in {"unlock_first", "unlock_second", "returned", "done"}

\* C17: once a call has terminated the run for insufficient funds, every call
\* that acquires the locks afterwards is the already-terminated no-op: no
\* balance or counter changes again and the other actor never takes the
\* insufficient-funds return.
C17_FrozenState ==
    \A t \in Threads :
        Failed(t) =>
            /\ is_terminated = 1
            /\ branch[Other(t)] # "insufficient"
            /\ pc[Other(t)] \notin {"check_funds", "reason_head", "reason_tail",
                                    "set_terminated", "debit", "credit", "count"}
            /\ pc[Other(t)] \in {"unlock_first", "unlock_second"}
                  => branch[Other(t)] = "aborted"

C17_FrozenStep ==
    (\E t \in Threads : Failed(t)) =>
        /\ balance' = balance
        /\ successful_transfers' = successful_transfers

C17_FrozenAfterFailure == [] C17_FrozenState /\ [][C17_FrozenStep]_vars

\* after one thread's insufficient-funds return the other, which has
\* transferred before, is inside a call that got the locks afterwards
C17_Witness ==
    \E t \in Threads :
        /\ Failed(t)
        /\ pc[Other(t)] = "unlock_first" /\ branch[Other(t)] = "aborted"
        /\ successful_transfers[Other(t)] > 0
        /\ balance[Other(t)] >= transfer_amount[Other(t)]

\* C18: in every reachable state in which is_terminated is 1 the reason is
\* already non-empty (its first byte is written), for the insufficient-funds
\* writer and for the deadline watchdog.
C18_ReasonBeforeFlag ==
    is_terminated = 1 => termination_reason[1] # EmptyReason[1]

\* C18 as the code has it: the insufficient-funds writer writes the reason
\* before the flag, the watchdog the flag before the reason, so with the flag
\* set the reason is non-empty except while main is between its assignment to
\* is_terminated and its strcpy.
C18_ReasonBeforeFlagButWatchdog ==
    (is_terminated = 1 /\ mainpc # "deadline_head")
        => termination_reason[1] # EmptyReason[1]

\* the flag has just been set by an insufficient-funds call while main is
\* still in its deadline sleep
C18_Witness ==
    /\ is_terminated = 1
    /\ mainpc = "deadline_sleep"
    /\ \E t \in Threads : pc[t] = "unlock_first" /\ branch[t] = "insufficient"

\* C19: if both initial balances are non-negative and both transfer amounts
\* are positive, no balance is ever negative.
C19_NoOverdraft ==
    (\A a \in Accounts : initial[a] >= 0 /\ transfer_amount[a] > 0)
        => \A a \in Accounts : balance[a] >= 0

\* a transfer of a positive amount has just emptied its source account while
\* the other direction has transferred too
C19_Witness ==
    /\ \A a \in Accounts : transfer_amount[a] > 0
    /\ \E t \in Threads :
          /\ pc[t] = "credit"
          /\ balance[Source(t)] = 0
          /\ successful_transfers[Dest(t)] > 0

\* C20: whenever no thread is inside the locked region, each balance is its
\* initial value minus the account's own successful transfers times its amount
\* plus the other account's successful transfers times the other amount; this
\* holds in particular when main prints the counters at shutdown.
C20_CountersAccountForBalances ==
    (\A t \in Threads : ~ InRegion(t)) =>
        \A a \in Accounts :
            balance[a] = initial[a]
                           - successful_transfers[a] * transfer_amount[a]
                           + successful_transfers[3 - a] * transfer_amount[3 - a]

\* shutdown after transfers of different positive amounts in both directions
C20_Witness ==
    /\ mainpc = "final"
    /\ \A a \in Accounts : successful_transfers[a] > 0 /\ transfer_amount[a] > 0
    /\ transfer_amount[1] # transfer_amount[2]
    /\ balance # initial

====
